---------------------------- MODULE Spec2Model ----------------------------
(***************************************************************************)
(* Model of src/Hadryss_new2.py: the HadryssNew network's auto-sizing.     *)
(*                                                                         *)
(* HadryssNew.__init__ calls determine_block_pooling_sizes_and_dense_size  *)
(* (the search for 8 pooling sizes), configures ten LightCurveNetworkBlock *)
(* stages from the result, and forward() pushes an input through the ten   *)
(* blocks in order.  The model follows one construction and one forward    *)
(* pass, statement by statement, and tracks the integers that decide the   *)
(* network's shape: the pooling sizes, the simulated length, the blocks'   *)
(* kernel/pooling/length arguments and the length of the sequence axis of  *)
(* x during forward().                                                     *)
(***************************************************************************)
EXTENDS Integers, Sequences, FiniteSets, TLC

(***************************************************************************)
(* Bounds of the model.                                                    *)
(***************************************************************************)
\* input_length ranges over 1..MaxInputLength ...
MaxInputLength == 2000
\* ... and over the multiples m * 3500 (the default length), m in 1..MaxMultiple.
MaxMultiple == 28
\* Cap on the total number of executions of line 141 (the code has none).
MaxIncrements == 40

(***************************************************************************)
(* Program constants.                                                      *)
(***************************************************************************)
\* line 129
number_of_pooling_blocks == 8
\* line 131
max_dense_final_layer_features == 10
\* line 115: default of HadryssNew.new(input_length=3500)
DefaultInputLength == 3500
\* lines 30, 36, ..., 81: kernel_size=3 of block0..block7
BlockKernelSize == 3
\* lines 27..96: block0..block9
NumberOfBlocks == 10

\* Positions of the list pooling_sizes (Python indexes 0..7).
Indices == 0..(number_of_pooling_blocks - 1)

\* The lengths a caller passes as input_length (lines 23, 115).
InputLengths ==
    (1..MaxInputLength) \cup {m * DefaultInputLength : m \in 1..MaxMultiple}

VARIABLES
    input_length,        \* self.input_length (line 25)
    pc,                  \* position in __init__ / the planner / forward
    pooling_sizes,       \* local list pooling_sizes (line 130), or NoList
    pooling_size_index,  \* loop variable of the for of line 133
    current_size,        \* local current_size (lines 134..138)
    sim_index,           \* position of the inner for of line 135
    plan,                \* the tuple returned at line 140, or NoPlan
    increments,          \* instrumentation: line-141 executions per position
    checked,             \* instrumentation: lists that failed the test of line 139
    blocks,              \* self.block0..self.block9 (lines 27..96), or NoBlocks
    x_length,            \* size of the last axis of x in forward (lines 100..110)
    block_index          \* next block forward() applies

vars == <<input_length, pc, pooling_sizes, pooling_size_index, current_size,
          sim_index, plan, increments, checked, blocks, x_length, block_index>>

NoList == <<>>
NoPlan == [returned |-> FALSE]
NoBlocks == <<>>

(***************************************************************************)
(* Lines 136..138: current_size -= 2; current_size /= p; math.floor(...).  *)
(* Python's / is true division and math.floor rounds toward minus          *)
(* infinity, also for a negative quotient; the values stay far below 2^53, *)
(* where the float quotient's floor is the exact integer floor.            *)
(***************************************************************************)
FloorDivide(a, b) ==
    IF a >= 0 THEN a \div b
    ELSE -(((-a) + b - 1) \div b)

ShrinkStep(size, pooling_size) ==
    FloorDivide(size - 2, pooling_size)

\* Line 139: the test that ends the search.
ReachedTarget_Strict(size) ==
    size < max_dense_final_layer_features

ReachedTarget_Exact(size) ==
    size = max_dense_final_layer_features

ReachedTarget(size) ==
    size <= max_dense_final_layer_features

\* Line 130: pooling_sizes = [1] * number_of_pooling_blocks
InitialPoolingSizes_Two ==
    [i \in Indices |-> 2]

InitialPoolingSizes ==
    [i \in Indices |-> 1]

\* Line 141: pooling_sizes[pooling_size_index] += 1
IncrementAt_Reversed(sizes, index) ==
    [sizes EXCEPT ![number_of_pooling_blocks - 1 - index] = @ + 1]

IncrementAt_ByTwo(sizes, index) ==
    [sizes EXCEPT ![index] = @ + 2]

IncrementAt(sizes, index) ==
    [sizes EXCEPT ![index] = @ + 1]

\* Line 140: return pooling_sizes, current_size
ReturnValue_AfterIncrement(sizes, size) ==
    [returned |-> TRUE, pooling_sizes |-> IncrementAt(sizes, 0), dense_size |-> size]

ReturnValue(sizes, size) ==
    [returned |-> TRUE, pooling_sizes |-> sizes, dense_size |-> size]

TotalIncrements ==
    increments[0] + increments[1] + increments[2] + increments[3]
    + increments[4] + increments[5] + increments[6] + increments[7]

(***************************************************************************)
(* State at the call of HadryssNew.__init__ (lines 23..25).                *)
(***************************************************************************)
Init ==
    /\ input_length \in InputLengths
    /\ pc = "init"
    /\ pooling_sizes = NoList
    /\ pooling_size_index = 0
    /\ current_size = 0
    /\ sim_index = 0
    /\ plan = NoPlan
    /\ increments = [i \in Indices |-> 0]
    /\ checked = <<>>
    /\ blocks = NoBlocks
    /\ x_length = 0
    /\ block_index = 0

(***************************************************************************)
(* determine_block_pooling_sizes_and_dense_size, lines 128..141.           *)
(***************************************************************************)
\* Lines 26, 128..132: the call and the planner's locals.
PlannerEnter ==
    /\ pc = "init"
    /\ pooling_sizes' = InitialPoolingSizes
    /\ pooling_size_index' = 0
    /\ pc' = "for_index"
    /\ UNCHANGED <<input_length, current_size, sim_index, plan, increments,
                   checked, blocks, x_length, block_index>>

\* Line 132: the for of line 133 is exhausted; while True starts it again.
NextRound ==
    /\ pc = "for_index"
    /\ pooling_size_index = number_of_pooling_blocks
    /\ pooling_size_index' = 0
    /\ UNCHANGED <<input_length, pc, pooling_sizes, current_size, sim_index,
                   plan, increments, checked, blocks, x_length, block_index>>

\* Lines 133..134: next position; current_size = self.input_length.
BeginSimulation ==
    /\ pc = "for_index"
    /\ pooling_size_index < number_of_pooling_blocks
    /\ current_size' = input_length
    /\ sim_index' = 0
    /\ pc' = "simulate"
    /\ UNCHANGED <<input_length, pooling_sizes, pooling_size_index, plan,
                   increments, checked, blocks, x_length, block_index>>

\* Lines 135..138: one iteration of the inner for.
SimulateStep ==
    /\ pc = "simulate"
    /\ sim_index < number_of_pooling_blocks
    /\ current_size' = ShrinkStep(current_size, pooling_sizes[sim_index])
    /\ sim_index' = sim_index + 1
    /\ UNCHANGED <<input_length, pc, pooling_sizes, pooling_size_index, plan,
                   increments, checked, blocks, x_length, block_index>>

\* Lines 139..140: the test succeeds, the planner returns.
Return ==
    /\ pc = "simulate"
    /\ sim_index = number_of_pooling_blocks
    /\ ReachedTarget(current_size)
    /\ plan' = ReturnValue(pooling_sizes, current_size)
    /\ pc' = "planned"
    /\ UNCHANGED <<input_length, pooling_sizes, pooling_size_index,
                   current_size, sim_index, increments, checked, blocks,
                   x_length, block_index>>

\* Lines 139, 141: the test fails, the position's pooling size grows.
Increment ==
    /\ pc = "simulate"
    /\ sim_index = number_of_pooling_blocks
    /\ ~ReachedTarget(current_size)
    /\ TotalIncrements < MaxIncrements
    /\ pooling_sizes' = IncrementAt(pooling_sizes, pooling_size_index)
    /\ increments' = [i \in Indices |->
                         increments[i] + (pooling_sizes'[i] - pooling_sizes[i])]
    /\ checked' = Append(checked, pooling_sizes)
    /\ pooling_size_index' = pooling_size_index + 1
    /\ pc' = "for_index"
    /\ UNCHANGED <<input_length, current_size, sim_index, plan, blocks,
                   x_length, block_index>>

(***************************************************************************)
(* HadryssNew.__init__, lines 27..97.  A block is recorded by the          *)
(* arguments that decide shapes; batch_normalization and dropout_rate do   *)
(* not change a length and are left out.  length is NoLength when the      *)
(* argument is not passed.                                                 *)
(***************************************************************************)
NoLength == -1

LightCurveNetworkBlock(in_ch, out_ch, kernel, pooling, is_spatial, len) ==
    [input_channels |-> in_ch, output_channels |-> out_ch,
     kernel_size |-> kernel, pooling_size |-> pooling,
     spatial |-> is_spatial, length |-> len]

\* Lines 27..77: block0..block6.
EarlyBlock(i, sizes) ==
    LET channels == <<1, 8, 8, 16, 32, 64, 64, 48>>
    IN  LightCurveNetworkBlock(channels[i + 1], channels[i + 2],
                               BlockKernelSize, sizes[i], TRUE, NoLength)

\* Lines 78..86: block7.
Block7(sizes, dense_size) ==
    LightCurveNetworkBlock(48, 20, BlockKernelSize, sizes[7], FALSE,
                           dense_size + 2)

\* Lines 87..93: block8.
Block8_KernelThree(dense_size) ==
    LightCurveNetworkBlock(20, 20, BlockKernelSize, 1, TRUE, NoLength)

Block8(dense_size) ==
    LightCurveNetworkBlock(20, 20, dense_size, 1, TRUE, NoLength)

\* Lines 94..96: block9.
Block9 ==
    LightCurveNetworkBlock(20, 20, 1, 1, TRUE, NoLength)

ConfiguredBlocks(sizes, dense_size) ==
    [i \in 0..(NumberOfBlocks - 1) |->
        CASE i <= 6 -> EarlyBlock(i, sizes)
          [] i = 7  -> Block7(sizes, dense_size)
          [] i = 8  -> Block8(dense_size)
          [] OTHER  -> Block9]

\* The kernel and pooling arguments a convolution/pooling stage can be made of.
ValidBlockArguments(b) ==
    /\ b.kernel_size >= 1
    /\ b.pooling_size >= 1

AllBlocksValid(bs) ==
    \A i \in 0..(NumberOfBlocks - 1) : ValidBlockArguments(bs[i])

\* Lines 26..97: __init__ unpacks the plan and stores the ten blocks; it tests
\* neither dense_size nor a pooling size, and has no raise statement.
BuildBlocks ==
    /\ pc = "planned"
    /\ blocks' = ConfiguredBlocks(plan.pooling_sizes, plan.dense_size)
    /\ pc' = "built"
    /\ UNCHANGED <<input_length, pooling_sizes, pooling_size_index,
                   current_size, sim_index, plan, increments, checked,
                   x_length, block_index>>

\* Lines 27..96: LightCurveNetworkBlock is imported (line 5), its code is not
\* part of this file.  Given a non-positive kernel or pooling size its
\* constructor may or may not raise; both outcomes are kept.
BlockConstructorRaises ==
    /\ pc = "planned"
    /\ ~AllBlocksValid(ConfiguredBlocks(plan.pooling_sizes, plan.dense_size))
    /\ pc' = "block_error"
    /\ UNCHANGED <<input_length, pooling_sizes, pooling_size_index,
                   current_size, sim_index, plan, increments, checked, blocks,
                   x_length, block_index>>

(***************************************************************************)
(* HadryssNew.forward, lines 99..112, on the length of the sequence axis.  *)
(***************************************************************************)
\* Output length of a block: floor((length - (kernel_size - 1)) / pooling_size).
BlockOutputLength(b, length) ==
    FloorDivide(length - (b.kernel_size - 1), b.pooling_size)

\* Line 100: x = x.reshape([-1, 1, self.input_length])
ForwardReshape ==
    /\ pc = "built"
    /\ x_length' = input_length
    /\ block_index' = 0
    /\ pc' = "forward"
    /\ UNCHANGED <<input_length, pooling_sizes, pooling_size_index,
                   current_size, sim_index, plan, increments, checked, blocks>>

\* Lines 101..110: x = self.block<i>(x)
ForwardBlock ==
    /\ pc = "forward"
    /\ block_index < NumberOfBlocks
    /\ x_length' = BlockOutputLength(blocks[block_index], x_length)
    /\ block_index' = block_index + 1
    /\ UNCHANGED <<input_length, pc, pooling_sizes, pooling_size_index,
                   current_size, sim_index, plan, increments, checked, blocks>>

\* Lines 111..112: x = self.end_module(x); return x
ForwardEnd ==
    /\ pc = "forward"
    /\ block_index = NumberOfBlocks
    /\ pc' = "done"
    /\ UNCHANGED <<input_length, pooling_sizes, pooling_size_index,
                   current_size, sim_index, plan, increments, checked, blocks,
                   x_length, block_index>>

Next ==
    \/ PlannerEnter
    \/ NextRound
    \/ BeginSimulation
    \/ SimulateStep
    \/ Return
    \/ Increment
    \/ BuildBlocks
    \/ BlockConstructorRaises
    \/ ForwardReshape
    \/ ForwardBlock
    \/ ForwardEnd

Spec == Init /\ [][Next]_vars

\* The interpreter runs the single thread to its end: a step that can be
\* taken is taken.
FairSpec == Spec /\ WF_vars(Next)

(***************************************************************************)
(* Properties.                                                             *)
(***************************************************************************)
\* The shrink formula as the specification words it, on its own arithmetic:
\* size = floor((size - 2) / factors[i]) for i = from..7.
RECURSIVE ShrinkFrom(_, _, _)
ShrinkFrom(size, factors, from) ==
    IF from = number_of_pooling_blocks THEN size
    ELSE ShrinkFrom((size - 2) \div factors[from], factors, from + 1)

\* The list held after j increments applied in the order 0,1,...,7,0,1,...
RECURSIVE AfterIncrements(_)
AfterIncrements(j) ==
    IF j = 0 THEN [i \in Indices |-> 1]
    ELSE [AfterIncrements(j - 1) EXCEPT
             ![(j - 1) % number_of_pooling_blocks] = @ + 1]

\* C1: for every inputLength in 100..100000 the planner returns exactly 8
\* pooling factors, all positive integers, and 1 <= denseSize <= 10.
C1_PlanWithinContract ==
    (plan.returned /\ input_length \in 100..100000) =>
        /\ DOMAIN plan.pooling_sizes = Indices
        /\ \A i \in Indices : plan.pooling_sizes[i] \in Nat \ {0}
        /\ plan.dense_size >= 1
        /\ plan.dense_size <= max_dense_final_layer_features

\* C2: construction never ends in a built pipeline when the plan holds a
\* non-positive denseSize, pooling factor or kernel size; in particular not
\* for an inputLength with inputLength - 2 <= 0.
C2_ConstructionFailsFast ==
    pc = "built" =>
        /\ plan.dense_size >= 1
        /\ AllBlocksValid(blocks)
        /\ input_length - 2 > 0

\* C3: round trip: applying size = floor((size - 2) / factors[i]), i = 0..7,
\* to inputLength with the returned factors gives the returned denseSize.
C3_RoundTrip ==
    plan.returned =>
        ShrinkFrom(input_length, plan.pooling_sizes, 0) = plan.dense_size

C3_Witness ==
    /\ plan.returned
    /\ plan.pooling_sizes[0] = 3
    /\ plan.pooling_sizes[7] = 2
    /\ plan.dense_size = 7

\* C4: the planner's while-True loop terminates: for every positive
\* inputLength the planner eventually returns.
C4_PlannerTerminates ==
    <>(plan.returned)

C4_Witness ==
    /\ plan.returned
    /\ Len(checked) >= 2 * number_of_pooling_blocks + 1

\* C5: check before increment, stop at the first hit: every list held before
\* the returned one is the next in the order 0,1,...,7,0,... and has simulated
\* final size > 10; the returned list is the first whose size is <= 10, and no
\* increment follows the successful check.
C5_FirstHitInOrder ==
    /\ \A j \in 1..Len(checked) :
          /\ checked[j] = AfterIncrements(j - 1)
          /\ ShrinkFrom(input_length, checked[j], 0)
                 > max_dense_final_layer_features
    /\ plan.returned =>
          /\ plan.pooling_sizes = AfterIncrements(Len(checked))
          /\ ShrinkFrom(input_length, plan.pooling_sizes, 0)
                 <= max_dense_final_layer_features
          /\ pooling_sizes = plan.pooling_sizes

C5_Witness ==
    /\ plan.returned
    /\ Len(checked) = number_of_pooling_blocks + 1
    /\ ShrinkFrom(input_length, checked[Len(checked)], 0)
           = max_dense_final_layer_features + 1

\* C6: at every point of the search and in the returned plan, position 0 has
\* received at least as many increments as any later position 1..7.
C6_FirstPositionLeads ==
    /\ \A i \in 1..(number_of_pooling_blocks - 1) :
          increments[0] >= increments[i]
    /\ plan.returned =>
          \A i \in Indices : plan.pooling_sizes[i] = 1 + increments[i]

C6_Witness ==
    /\ plan.returned
    /\ increments[0] > increments[7]
    /\ increments[7] >= 1

C8_RoundRobinShape ==
    /\ pooling_sizes # NoList =>
          \A i \in Indices :
              pooling_sizes[i] =
                  1 + (Len(checked) \div number_of_pooling_blocks)
                    + (IF i < Len(checked) % number_of_pooling_blocks
                       THEN 1 ELSE 0)
    /\ plan.returned =>
          /\ \A i \in Indices : \A j \in Indices :
                i <= j => plan.pooling_sizes[i] >= plan.pooling_sizes[j]
          /\ plan.pooling_sizes[0] - plan.pooling_sizes[7] <= 1

C8_Witness ==
    /\ plan.returned
    /\ Len(checked) > number_of_pooling_blocks
    /\ Len(checked) % number_of_pooling_blocks = 5

\* C9: the length configured on block 7 (denseSize + 2) equals the sequence
\* length that enters block 7 in forward.
C9_Block7LengthMatches ==
    (pc = "forward" /\ block_index = 7) =>
        x_length = blocks[7].length

\* C10: for every inputLength <= 26 the planner returns at its first check
\* with no increment: all factors 1, denseSize = inputLength - 16 (zero or
\* negative when inputLength <= 16), nothing raised, nothing clamped.
C10_SmallInputs ==
    input_length <= 26 =>
        /\ checked = <<>>
        /\ pooling_size_index = 0
        /\ \A i \in Indices : increments[i] = 0
        /\ pc \in {"simulate", "planned"} =>
              \A i \in Indices : pooling_sizes[i] = 1
        /\ (pc = "simulate" /\ sim_index = number_of_pooling_blocks) =>
              ReachedTarget(current_size)
        /\ plan.returned =>
              /\ \A i \in Indices : plan.pooling_sizes[i] = 1
              /\ plan.dense_size = input_length - 16
              /\ (input_length <= 16 => plan.dense_size <= 0)

C10_Witness ==
    /\ plan.returned
    /\ input_length <= 16
    /\ plan.dense_size < 0

=============================================================================
